---- MODULE Spec2Model ----
(***************************************************************************)
(* Model of the HR assistant's retrieval-and-generation pipeline:          *)
(*   - answer() of answer_generator_hybrid.py with its callers (the        *)
(*     Streamlit form and main()), one action per external call and the    *)
(*     handler code around it;                                             *)
(*   - chunk_text() of docs.py, one action per loop iteration.             *)
(* Strings are sequences of one-character strings where the code looks at  *)
(* their characters (strip, slicing); a returned message is the sequence   *)
(* of the pieces its f-string concatenates ("-" stands for the em dash).   *)
(***************************************************************************)
EXTENDS Integers, Sequences, FiniteSets, TLC

VARIABLES
    \* ---- environment of answer_generator_hybrid.py
    importsOk,      \* google.genai / chromadb can be imported
    apiKey,         \* GEMINI_API_KEY is set (module level, line 24)
    collExists,     \* the store holds the collection COLLECTION_NAME
    \* ---- one answer() request
    pc,             \* position in answer()
    caller,         \* who called answer(): "ui", "main", "api"
    mode,           \* the radio button of the form, "n/a" for other callers
    question,       \* the question argument
    use_hybrid,     \* the use_hybrid argument
    gclientBound,   \* the local gclient is bound
    exc,            \* the exception being handled (the `e` of the handler)
    top_docs,       \* the chunks put into the grounding prompt
    docs,           \* the documents of the store's answer
    calls,          \* external calls made by this request, in order
    result,         \* the returned string, <<>> while running
    \* ---- one chunk_text() call
    cpc,            \* "idle", "loop", "done"
    text,           \* the text argument
    chunk_size,
    chunk_overlap,
    start,          \* the loop variable
    chunks,         \* the list being built
    \* ---- one run of ingest.py: index_folder() or index_document()
    ipc,            \* position in index_folder / index_document
    in_folder,      \* index_document was called by index_folder
    folder,         \* the entries of the folder still to visit
    file_path,      \* index_document's file_path
    entry,          \* what the disk holds at file_path
    raw,            \* load_document's text
    ci,             \* chunks the `for` of line 68 has taken (its next i)
    idocs,          \* docs
    metadatas,
    ids,
    embeddings,
    embed_log,      \* the provider's answer for each chunk taken, in order
    add_calls,      \* the coll.add calls made, in order
    next_id,        \* uuid4 values handed out so far
    visited,        \* the entries index_document was called for
    iret,           \* what the last index_document call returned
    iexc,           \* the call that raised, when the run ended by an exception
    \* ---- one answer_question_local() call
    lpc,            \* position in answer_question_local
    hits,           \* the store's hits: <<docs, metas, dists>>
    deduped,        \* the three lists after dedupe_chunks_preserve_order
    lprompt,        \* the context blocks of the prompt
    lanswer         \* what build_answer_with_gemini returned

avars == <<importsOk, apiKey, collExists, pc, caller, mode, question, use_hybrid,
           gclientBound, exc, top_docs, docs, calls, result>>
cvars == <<cpc, text, chunk_size, chunk_overlap, start, chunks>>
ivars == <<ipc, in_folder, folder, file_path, entry, raw, ci, idocs, metadatas, ids,
           embeddings, embed_log, add_calls, next_id, visited, iret, iexc>>
lvars == <<lpc, hits, deduped, lprompt, lanswer>>
vars == <<avars, cvars, ivars, lvars>>

\* ---------------------------------------------------------------- bounds
MaxQLen == 2
MaxLen == 4
MaxSize == 4
MaxOverlap == 3
MaxHits == 5

\* ---------------------------------------------------------------- strings
Min(a, b) == IF a < b THEN a ELSE b

Chars == {" ", "a"}

RECURSIVE SeqsUpTo(_, _)
SeqsUpTo(S, n) ==
    IF n = 0 THEN {<<>>}
    ELSE LET shorter == SeqsUpTo(S, n - 1)
         IN shorter \cup {Append(s, x) : s \in {t \in shorter : Len(t) = n - 1}, x \in S}

\* str.isspace() for the characters of the model
IsSpace(c) == c \in {" ", "\n", "\r"}

RECURSIVE LStrip(_)
LStrip(s) == IF s = <<>> THEN s ELSE IF IsSpace(Head(s)) THEN LStrip(Tail(s)) ELSE s

RECURSIVE RStrip(_)
RStrip(s) ==
    IF s = <<>> THEN s
    ELSE IF IsSpace(s[Len(s)]) THEN RStrip(SubSeq(s, 1, Len(s) - 1)) ELSE s

\* str.strip()
Strip(s) == RStrip(LStrip(s))

\* s[a:b] for 0 <= a
Slice(s, a, b) == SubSeq(s, a + 1, Min(b, Len(s)))

\* ---------------------------------------------------------------- answer()
\* The three entries of the form's radio button (streamlit_ui.py line 14).
Modes == {"Hybrid (PDF first)", "PDF-only", "Gemini-only"}

Questions == SeqsUpTo(Chars, MaxQLen)

\* Python's None among the documents of a store answer.
NoneDoc == "<None>"
DocValues == {NoneDoc, "", "policy chunk"}

\* `if d` for a document d
Truthy(d) == d # "" /\ d # NoneDoc

\* The generation provider's answers to one generate_content call: the call
\* raises, or the response holds candidates[0].content.parts[0].text, or it
\* holds no candidate the extraction finds.
GenResponses ==
    {[kind |-> "raise", text |-> ""],
     [kind |-> "parts", text |-> "generated answer"],
     [kind |-> "parts", text |-> ""],
     [kind |-> "none", text |-> ""]}

\* The text _generate_from_gemini returns for a response that did not raise:
\* the candidate's text, or str(resp) when the extraction finds none.
_generate_from_gemini(resp) ==
    IF resp.kind = "parts" THEN resp.text ELSE "str(resp)"

ErrImport == "RuntimeError: Missing package import"
ErrNoKey == "RuntimeError: GEMINI_API_KEY missing in .env"
ErrChromaOpen == "chromadb: cannot open the store"
ErrCollection == "RuntimeError: Could not open or create collection"
ErrImportAgain == "ImportError: google.genai"
ErrUnbound == "UnboundLocalError: gclient"
ErrEmbedCall == "embed_content error"
ErrEmbedExtract == "RuntimeError: Could not extract embedding vector"
ErrChromaQuery == "RuntimeError: Chroma query failed"

NumStr(n) == CASE n = 0 -> "0" [] n = 1 -> "1" [] n = 2 -> "2" [] n = 3 -> "3"
               [] n = 4 -> "4" [] OTHER -> "many"

\* Number of generate_content calls this request has made.
GenCalls == Len(SelectSeq(calls, LAMBDA c : c.api = "generate"))

\* The error of the k-th generate_content call of a request.
GenErr(k) == IF k = 1 THEN "generate_content error (call 1)"
             ELSE "generate_content error (call 2)"

\* traceback.format_exc() in a handler: the exception being handled and, before
\* it, the exceptions it was raised while handling (its __context__ chain).
format_exc(chain) == <<"Traceback:">> \o chain

\* The record of one external call: the stage of answer() that made it, the
\* kind of prompt and the chunks in it (a generate call), the error it raised
\* ("" when it returned) and the text it returned.
Log(api, kind, ctx, err, out) ==
    Append(calls, [api |-> api, stage |-> pc, kind |-> kind, ctx |-> ctx,
                   ok |-> (err = ""), err |-> err, out |-> out])

\* A generate_content call with the provider answering resp.
LogGenerate(kind, ctx, resp) ==
    Log("generate", kind, ctx,
        IF resp.kind = "raise" THEN GenErr(GenCalls + 1) ELSE "",
        IF resp.kind = "raise" THEN "" ELSE _generate_from_gemini(resp))

\* `return r`
Return(r) == result' = r /\ pc' = "done"

\* ---- the strings answer() returns
MsgValidation == <<"Please provide a non-empty question.">>
MsgClientsFallback(out) == <<"(Gemini fallback - clients init failed)", out>>
MsgClientsError(e, chain) == <<"Error creating clients:", e>> \o format_exc(chain)
MsgGeminiOnlyFailed(e, chain) == <<"Gemini generation failed:", e>> \o format_exc(chain)
MsgEmbeddingFailed(e, chain) == <<"Embedding failed:", e>> \o format_exc(chain)
MsgGrounded(gen, n) == <<gen, "(Used PDF context -", NumStr(n), "chunks.)">>
MsgGroundedGenFailed(ge, td) ==
    <<"(Gemini generation failed:", ge, ")", "Top retrieved chunks:">> \o td
\* Mutant of MsgNoHits: the generated text goes back without its marker.
MsgNoHitsUntagged(gen) == <<gen>>
MsgNoHits(gen) == <<"(No document hits - Gemini fallback)", gen>>
\* Mutant of MsgChromaFailed: the store error goes back without the generated text.
MsgChromaFailedNoText(e, gen) == <<"(Chroma failed:", e, ")">>
MsgChromaFailed(e, gen) == <<"(Chroma failed:", e, ")", "Gemini answer:", gen>>
\* Mutant of MsgBothFailed: only the first error is reported.
MsgBothFailedDropsSecond(e, e2, chain) ==
    <<"Both Chroma and Gemini failed:", "Chroma error:", e>>
MsgBothFailed(e, e2, chain) ==
    <<"Both Chroma and Gemini failed:", "Chroma error:", e, "Gemini error:", e2>>
        \o format_exc(chain)

\* ---- callers
\* The form (streamlit_ui.py lines 99-107): asks only for a question that is
\* not blank, and passes use_hybrid = (MODE == "Hybrid (PDF first)").
AskUI(q, m) ==
    /\ pc = "idle"
    /\ Strip(q) # <<>>
    /\ pc' = "answer"
    /\ caller' = "ui"
    /\ mode' = m
    /\ question' = q
    /\ use_hybrid' = (m = "Hybrid (PDF first)")
    /\ UNCHANGED <<importsOk, apiKey, collExists, gclientBound, exc, top_docs, docs,
                   calls, result, cvars, ivars, lvars>>

\* main(): answer(input().strip(), use_hybrid=True)
MainCli(q) ==
    /\ pc = "idle"
    /\ pc' = "answer"
    /\ caller' = "main"
    /\ mode' = "n/a"
    /\ question' = Strip(q)
    /\ use_hybrid' = TRUE
    /\ UNCHANGED <<importsOk, apiKey, collExists, gclientBound, exc, top_docs, docs,
                   calls, result, cvars, ivars, lvars>>

\* Any other caller of the public function answer(question, use_hybrid).
CallAnswer(q, h) ==
    /\ pc = "idle"
    /\ pc' = "answer"
    /\ caller' = "api"
    /\ mode' = "n/a"
    /\ question' = q
    /\ use_hybrid' = h
    /\ UNCHANGED <<importsOk, apiKey, collExists, gclientBound, exc, top_docs, docs,
                   calls, result, cvars, ivars, lvars>>

\* Mutant of IsBlank: the question is tested without strip().
IsBlankNoStrip(q) == q = <<>>

\* `not question or not question.strip()`, line 135
IsBlank(q) == q = <<>> \/ Strip(q) = <<>>

\* ---- answer(), lines 135-136
Validate ==
    /\ pc = "answer"
    /\ IF IsBlank(question)
       THEN Return(MsgValidation)
       ELSE pc' = "clients" /\ UNCHANGED result
    /\ UNCHANGED <<importsOk, apiKey, collExists, caller, mode, question, use_hybrid,
                   gclientBound, exc, top_docs, docs, calls, cvars, ivars, lvars>>

\* The stage after client creation: the mode check of line 153.
AfterClients == IF ~use_hybrid THEN "gemini_only" ELSE "embed"

\* _create_clients(): the error it raises, "" when it returns the clients.
\* chroma is the store's state at the call: "up", "down" (PersistentClient
\* raises) or "collfail" (the collection can be neither opened nor created).
_create_clients(chroma) ==
    IF ~importsOk THEN ErrImport
    ELSE IF ~apiKey THEN ErrNoKey
    ELSE IF chroma = "down" THEN ErrChromaOpen
    ELSE IF collExists THEN ""
    ELSE IF chroma = "collfail" THEN ErrCollection
    ELSE ""

\* answer(), lines 139-150 up to the fallback's generate call.
CreateClients(chroma) ==
    /\ pc = "clients"
    /\ calls' = Log("create_clients", "-", <<>>, _create_clients(chroma), "")
    /\ LET e == _create_clients(chroma) IN
       IF e = ""
       THEN /\ gclientBound' = TRUE
            /\ collExists' = TRUE      \* get_or_create_collection creates it
            /\ pc' = AfterClients
            /\ UNCHANGED <<exc, result>>
       ELSE /\ collExists' = collExists
            /\ gclientBound' = FALSE
            /\ IF ~apiKey
               THEN \* `if GEMINI_API_KEY:` is false: the handler ends without a
                    \* return and answer() goes on with gclient unbound
                    /\ pc' = AfterClients
                    /\ UNCHANGED <<exc, result>>
               ELSE IF ~importsOk
               THEN \* `from google import genai` raises again, line 149 catches
                    /\ exc' = <<e, ErrImportAgain>>
                    /\ Return(MsgClientsError(e, <<e, ErrImportAgain>>))
               ELSE /\ exc' = <<e>>
                    /\ pc' = "clients_fallback"
                    /\ UNCHANGED result
    /\ UNCHANGED <<importsOk, apiKey, caller, mode, question, use_hybrid, top_docs,
                   docs, cvars, ivars, lvars>>

\* answer(), lines 146-150: the generation of the client-init fallback.
ClientsFallbackGenerate(resp) ==
    /\ pc = "clients_fallback"
    /\ calls' = LogGenerate("generic", <<>>, resp)
    /\ IF resp.kind = "raise"
       THEN LET e2 == GenErr(GenCalls + 1) IN
            /\ exc' = Append(exc, e2)
            /\ Return(MsgClientsError(exc[1], Append(exc, e2)))
       ELSE /\ Return(MsgClientsFallback(_generate_from_gemini(resp)))
            /\ UNCHANGED exc
    /\ UNCHANGED <<importsOk, apiKey, collExists, caller, mode, question, use_hybrid,
                   gclientBound, top_docs, docs, cvars, ivars, lvars>>

\* answer(), lines 153-158: use_hybrid is false.
GeminiOnlyGenerate(resp) ==
    /\ pc = "gemini_only"
    /\ IF ~gclientBound
       THEN \* reading the unbound local raises inside the try
            /\ exc' = <<ErrUnbound>>
            /\ Return(MsgGeminiOnlyFailed(ErrUnbound, <<ErrUnbound>>))
            /\ UNCHANGED calls
       ELSE /\ calls' = LogGenerate("generic", <<>>, resp)
            /\ IF resp.kind = "raise"
               THEN LET e == GenErr(GenCalls + 1) IN
                    /\ exc' = <<e>>
                    /\ Return(MsgGeminiOnlyFailed(e, <<e>>))
               ELSE /\ Return(<<_generate_from_gemini(resp)>>)
                    /\ UNCHANGED exc
    /\ UNCHANGED <<importsOk, apiKey, collExists, caller, mode, question, use_hybrid,
                   gclientBound, top_docs, docs, cvars, ivars, lvars>>

\* _embed_text(): the error it raises for the provider's answer, "" when it
\* returns a vector.
_embed_text(out) ==
    IF out = "raise" THEN ErrEmbedCall
    ELSE IF out = "novec" THEN ErrEmbedExtract
    ELSE ""

EmbedOutcomes == {"raise", "novec", "vec"}

\* Mutant of EmbedQuery: without the try of line 161 the exception of the
\* embedding stage leaves answer().
EmbedQueryUncaught(out) ==
    /\ pc = "embed"
    /\ IF ~gclientBound
       THEN /\ exc' = <<ErrUnbound>>
            /\ pc' = "escaped"
            /\ UNCHANGED <<calls, result>>
       ELSE /\ calls' = Log("embed", "-", <<>>, _embed_text(out), "")
            /\ LET e == _embed_text(out) IN
               IF e # ""
               THEN /\ exc' = <<e>>
                    /\ pc' = "escaped"
                    /\ UNCHANGED result
               ELSE /\ pc' = "query"
                    /\ UNCHANGED <<exc, result>>
    /\ UNCHANGED <<importsOk, apiKey, collExists, caller, mode, question, use_hybrid,
                   gclientBound, top_docs, docs, cvars, ivars, lvars>>

\* answer(), lines 161-165
EmbedQuery(out) ==
    /\ pc = "embed"
    /\ IF ~gclientBound
       THEN /\ exc' = <<ErrUnbound>>
            /\ Return(MsgEmbeddingFailed(ErrUnbound, <<ErrUnbound>>))
            /\ UNCHANGED calls
       ELSE /\ calls' = Log("embed", "-", <<>>, _embed_text(out), "")
            /\ LET e == _embed_text(out) IN
               IF e # ""
               THEN /\ exc' = <<e>>
                    /\ Return(MsgEmbeddingFailed(e, <<e>>))
               ELSE /\ pc' = "query"
                    /\ UNCHANGED <<exc, result>>
    /\ UNCHANGED <<importsOk, apiKey, collExists, caller, mode, question, use_hybrid,
                   gclientBound, top_docs, docs, cvars, ivars, lvars>>

\* What collection.query can answer: the "documents" list of lists, empty or
\* holding the hit list of the one query embedding.
StoreAnswers == {<<>>} \cup {<<d>> : d \in SeqsUpTo(DocValues, MaxHits)}

\* lines 172-189: docs is the first list of "documents", [] when there is none
FlattenDocs(docs_lists) == IF docs_lists # <<>> THEN docs_lists[1] ELSE <<>>

\* `docs and any(docs)`, line 192
HasHits(d) == d # <<>> /\ \E i \in 1..Len(d) : Truthy(d[i])

\* [d for d in docs if d and isinstance(d, str)][:4], line 194
TopSlice == 4
TopDocs(d) == Slice(SelectSeq(d, Truthy), 0, TopSlice)

\* answer(), lines 168-194: the store query and the reading of its answer.
QueryChroma(raises, docs_lists) ==
    /\ pc = "query"
    /\ calls' = Log("query", "-", <<>>, IF raises THEN ErrChromaQuery ELSE "", "")
    /\ IF raises
       THEN \* _query_chroma raises RuntimeError, caught at line 214
            /\ exc' = <<ErrChromaQuery>>
            /\ pc' = "chroma_fallback"
            /\ UNCHANGED <<docs, top_docs>>
       ELSE /\ docs' = FlattenDocs(docs_lists)
            /\ IF HasHits(docs')
               THEN top_docs' = TopDocs(docs') /\ pc' = "grounded"
               ELSE top_docs' = top_docs /\ pc' = "no_hits"
            /\ UNCHANGED exc
    /\ UNCHANGED <<importsOk, apiKey, collExists, caller, mode, question, use_hybrid,
                   gclientBound, result, cvars, ivars, lvars>>

\* Mutant of GroundedGenerate: without the try of line 201 the exception of
\* the grounded generation goes to the handler of line 214.
GroundedGenerateUncaught(resp) ==
    /\ pc = "grounded"
    /\ calls' = LogGenerate("grounded", top_docs, resp)
    /\ IF resp.kind = "raise"
       THEN /\ exc' = <<GenErr(GenCalls + 1)>>
            /\ pc' = "chroma_fallback"
            /\ UNCHANGED result
       ELSE /\ Return(MsgGrounded(_generate_from_gemini(resp), Len(top_docs)))
            /\ UNCHANGED exc
    /\ UNCHANGED <<importsOk, apiKey, collExists, caller, mode, question, use_hybrid,
                   gclientBound, top_docs, docs, cvars, ivars, lvars>>

\* answer(), lines 195-207: generation from the retrieved chunks.
GroundedGenerate(resp) ==
    /\ pc = "grounded"
    /\ calls' = LogGenerate("grounded", top_docs, resp)
    /\ IF resp.kind = "raise"
       THEN LET ge == GenErr(GenCalls + 1) IN
            /\ exc' = <<ge>>
            /\ Return(MsgGroundedGenFailed(ge, top_docs))
       ELSE /\ Return(MsgGrounded(_generate_from_gemini(resp), Len(top_docs)))
            /\ UNCHANGED exc
    /\ UNCHANGED <<importsOk, apiKey, collExists, caller, mode, question, use_hybrid,
                   gclientBound, top_docs, docs, cvars, ivars, lvars>>

\* answer(), lines 208-212: no retrieval results. The call is inside the try
\* of line 168, so its exception goes to the handler of line 214.
NoHitsGenerate(resp) ==
    /\ pc = "no_hits"
    /\ calls' = LogGenerate("generic", <<>>, resp)
    /\ IF resp.kind = "raise"
       THEN /\ exc' = <<GenErr(GenCalls + 1)>>
            /\ pc' = "chroma_fallback"
            /\ UNCHANGED result
       ELSE /\ Return(MsgNoHits(_generate_from_gemini(resp)))
            /\ UNCHANGED exc
    /\ UNCHANGED <<importsOk, apiKey, collExists, caller, mode, question, use_hybrid,
                   gclientBound, top_docs, docs, cvars, ivars, lvars>>

\* answer(), lines 214-220: the handler of the try of line 168.
ChromaFallbackGenerate(resp) ==
    /\ pc = "chroma_fallback"
    /\ calls' = LogGenerate("generic", <<>>, resp)
    /\ IF resp.kind = "raise"
       THEN LET e2 == GenErr(GenCalls + 1) IN
            /\ exc' = Append(exc, e2)
            /\ Return(MsgBothFailed(exc[1], e2, Append(exc, e2)))
       ELSE /\ Return(MsgChromaFailed(exc[1], _generate_from_gemini(resp)))
            /\ UNCHANGED exc
    /\ UNCHANGED <<importsOk, apiKey, collExists, caller, mode, question, use_hybrid,
                   gclientBound, top_docs, docs, cvars, ivars, lvars>>

\* The caller has the result; the next request starts with fresh locals.
NextRequest ==
    /\ pc = "done"
    /\ pc' = "idle"
    /\ caller' = "none"
    /\ mode' = "n/a"
    /\ question' = <<>>
    /\ use_hybrid' = TRUE
    /\ gclientBound' = FALSE
    /\ exc' = <<>>
    /\ top_docs' = <<>>
    /\ docs' = <<>>
    /\ calls' = <<>>
    /\ result' = <<>>
    /\ UNCHANGED <<importsOk, apiKey, collExists, cvars, ivars, lvars>>

\* Python's None as a returned value; an int n is returned as <<n>>.
None == <<>>

\* A directory entry as the disk holds it: os.path.isfile, whether
\* load_document can extract its text, and the text it extracts.
NoEntry == [name |-> "", isfile |-> FALSE, readable |-> FALSE, raw |-> <<>>]

IngestIdle ==
    /\ ipc = "idle"
    /\ in_folder = FALSE
    /\ folder = <<>>
    /\ file_path = <<>>
    /\ entry = NoEntry
    /\ raw = <<>>
    /\ ci = 0
    /\ idocs = <<>>
    /\ metadatas = <<>>
    /\ ids = <<>>
    /\ embeddings = <<>>
    /\ embed_log = <<>>
    /\ add_calls = <<>>
    /\ next_id = 0
    /\ visited = <<>>
    /\ iret = None
    /\ iexc = ""

LocalIdle ==
    /\ lpc = "idle"
    /\ hits = <<<<>>, <<>>, <<>>>>
    /\ deduped = <<<<>>, <<>>, <<>>>>
    /\ lprompt = <<>>
    /\ lanswer = <<>>

ChunkIdle ==
    /\ cpc = "idle"
    /\ text = <<>>
    /\ chunk_size = 1
    /\ chunk_overlap = 0
    /\ start = 0
    /\ chunks = <<>>

AnswerInit ==
    /\ importsOk \in BOOLEAN
    /\ apiKey \in BOOLEAN
    /\ collExists \in BOOLEAN
    /\ pc = "idle"
    /\ caller = "none"
    /\ mode = "n/a"
    /\ question = <<>>
    /\ use_hybrid = TRUE
    /\ gclientBound = FALSE
    /\ exc = <<>>
    /\ top_docs = <<>>
    /\ docs = <<>>
    /\ calls = <<>>
    /\ result = <<>>
    /\ ChunkIdle
    /\ IngestIdle
    /\ LocalIdle

AnswerNext ==
    \/ \E q \in Questions, m \in Modes : AskUI(q, m)
    \/ \E q \in Questions : MainCli(q)
    \/ \E q \in Questions, h \in BOOLEAN : CallAnswer(q, h)
    \/ Validate
    \/ \E chroma \in {"up", "down", "collfail"} : CreateClients(chroma)
    \/ \E resp \in GenResponses : ClientsFallbackGenerate(resp)
    \/ \E resp \in GenResponses : GeminiOnlyGenerate(resp)
    \/ \E out \in EmbedOutcomes : EmbedQuery(out)
    \/ \E raises \in BOOLEAN, dl \in StoreAnswers : QueryChroma(raises, dl)
    \/ \E resp \in GenResponses : GroundedGenerate(resp)
    \/ \E resp \in GenResponses : NoHitsGenerate(resp)
    \/ \E resp \in GenResponses : ChromaFallbackGenerate(resp)
    \/ NextRequest

AnswerSpec == AnswerInit /\ [][AnswerNext]_vars

\* ---------------------------------------------------------------- chunk_text()
Texts == SeqsUpTo(Chars, MaxLen)

\* The defaults of chunk_text and of index_document, which index_folder
\* leaves in force.
DefaultChunkSize == 1200
DefaultChunkOverlap == 200

\* A document of the size of a policy file, chunked with the defaults: its
\* first window ends on a blank.
ScenarioLen == 2500
ScenarioText == [k \in 1..ScenarioLen |-> IF k = DefaultChunkSize THEN " " ELSE "a"]

\* The loop of a call whose parameters never let start grow is cut off after
\* this many chunks, more than any text of the model has characters.
MaxChunks == MaxLen + 2

\* chunk_text(text, chunk_size, chunk_overlap), lines 42-44
ChunkCall(t, size, overlap) ==
    /\ cpc = "idle"
    /\ cpc' = "loop"
    /\ text' = t
    /\ chunk_size' = size
    /\ chunk_overlap' = overlap
    /\ start' = 0
    /\ chunks' = <<>>
    /\ UNCHANGED <<avars, ivars, lvars>>

\* Mutant of NextStart: the next window starts where this one ends.
NextStartNoOverlap(s) == s + chunk_size

\* Mutant of NextStart: a character is left out between two windows.
NextStartSkipping(s) == s + chunk_size + 1

\* The start of the next window, lines 46 and 49-51
NextStart(s) ==
    LET end == s + chunk_size
        nxt == end - chunk_overlap
    IN IF nxt < 0 THEN 0 ELSE nxt

\* Mutant of Window: the end offset is not clipped to the text.
WindowUnclipped(s) ==
    LET end == s + chunk_size
    IN <<Strip(Slice(text, s, end)), s, end>>

\* The triple appended for the window at s, lines 46-48
Window(s) ==
    LET end == s + chunk_size
    IN <<Strip(Slice(text, s, end)), s, Min(end, Len(text))>>

\* One iteration of `while start < text_len`, lines 45-51
ChunkLoop ==
    /\ cpc = "loop"
    /\ start < Len(text)
    /\ Len(chunks) < MaxChunks
    /\ chunks' = Append(chunks, Window(start))
    /\ start' = NextStart(start)
    /\ UNCHANGED <<cpc, text, chunk_size, chunk_overlap, avars, ivars, lvars>>

\* The loop condition is false: `return chunks`, line 52
ChunkReturn ==
    /\ cpc = "loop"
    /\ ~(start < Len(text))
    /\ cpc' = "done"
    /\ UNCHANGED <<text, chunk_size, chunk_overlap, start, chunks, avars, ivars, lvars>>

\* The caller has the list; the next call starts afresh.
ChunkReset ==
    /\ cpc \in {"done", "loop"}
    /\ cpc = "loop" => Len(chunks) >= MaxChunks
    /\ cpc' = "idle"
    /\ text' = <<>>
    /\ chunk_size' = 1
    /\ chunk_overlap' = 0
    /\ start' = 0
    /\ chunks' = <<>>
    /\ UNCHANGED <<avars, ivars, lvars>>

AnswerIdle ==
    /\ importsOk = TRUE
    /\ apiKey = TRUE
    /\ collExists = TRUE
    /\ pc = "idle"
    /\ caller = "none"
    /\ mode = "n/a"
    /\ question = <<>>
    /\ use_hybrid = TRUE
    /\ gclientBound = FALSE
    /\ exc = <<>>
    /\ top_docs = <<>>
    /\ docs = <<>>
    /\ calls = <<>>
    /\ result = <<>>

ChunkInit == AnswerIdle /\ ChunkIdle /\ IngestIdle /\ LocalIdle

ChunkNext ==
    \/ \E t \in Texts, size \in 1..MaxSize, overlap \in 0..MaxOverlap :
          ChunkCall(t, size, overlap)
    \/ ChunkCall(ScenarioText, DefaultChunkSize, DefaultChunkOverlap)
    \/ ChunkLoop
    \/ ChunkReturn
    \/ ChunkReset

ChunkSpec == ChunkInit /\ [][ChunkNext]_vars

\* ---------------------------------------------------------------- properties
Contains(seq, x) == \E i \in 1..Len(seq) : seq[i] = x

Failed(api) == \E i \in 1..Len(calls) : calls[i].api = api /\ ~calls[i].ok
Succeeded(api) == \E i \in 1..Len(calls) : calls[i].api = api /\ calls[i].ok

LastCall == calls[Len(calls)]

\* A generation with no retrieved context in its prompt was requested.
GenericGenerationAttempted ==
    \E i \in 1..Len(calls) : calls[i].api = "generate" /\ calls[i].kind = "generic"

\* The markers answer() puts in front of a generated text it returns as a fallback.
FallbackTags ==
    {"(Gemini fallback - clients init failed)", "(No document hits - Gemini fallback)",
     "(Chroma failed:"}

\* The markers that open an error report.
ErrorTags ==
    {"Error creating clients:", "Embedding failed:", "(Gemini generation failed:",
     "Both Chroma and Gemini failed:"}

\* C1: in hybrid mode, when the embedding call of a request has failed, the
\* request ends with a generic generation attempted and its text returned
\* under a fallback tag. (The statement of the claim; the code returns the
\* embedding error instead.)
C1_EmbedFailureDegradesToGeneric ==
    (pc = "done" /\ use_hybrid /\ Failed("embed")) =>
        /\ GenericGenerationAttempted
        /\ result[1] \in FallbackTags
        /\ Contains(result, LastCall.out)

\* C2: a question that is empty or only whitespace gets the validation message
\* and nothing else happens for it: once answer() has looked at it the request
\* is over, and no client was created and no provider or store was called.
C2_BlankQuestionRejectedBeforeAnyCall ==
    (pc \notin {"idle", "answer"} /\ Strip(question) = <<>>) =>
        /\ pc = "done"
        /\ result = MsgValidation
        /\ calls = <<>>

C2_Witness ==
    /\ pc = "done"
    /\ question = <<" ", " ">>
    /\ result = MsgValidation

\* C3: in hybrid mode, when the embedding and the store query succeeded and
\* the store gave no usable hit, the request ends with the text of a generic
\* generation returned under the "no document hits" tag. (The statement of the
\* claim; it fails when that generation call raises.)
C3_NoHitsReturnsTaggedUngrounded ==
    (pc = "done" /\ use_hybrid /\ Succeeded("embed") /\ Succeeded("query")
        /\ ~HasHits(docs)) =>
        /\ GenericGenerationAttempted
        /\ result[1] = "(No document hits - Gemini fallback)"
        /\ Len(result) = 2
        /\ result[2] = LastCall.out

C5_PdfOnlyNeverGeneric ==
    mode = "PDF-only" => ~GenericGenerationAttempted

\* The grounded generation call of this request raised.
GroundedGenerationFailed ==
    \E i \in 1..Len(calls) :
        calls[i].api = "generate" /\ calls[i].kind = "grounded" /\ ~calls[i].ok

FallbackGenerationFailed ==
    /\ calls # <<>>
    /\ LastCall.api = "generate"
    /\ LastCall.stage \in {"clients_fallback", "chroma_fallback"}
    /\ ~LastCall.ok

\* The errors raised by the calls of this request.
FailureCauses == {calls[i].err : i \in {j \in 1..Len(calls) : ~calls[j].ok}}

\* C7: when a stage failed and the fallback generation failed too, the request
\* ends with an error report that holds both causes: the error of the stage
\* and the error of the fallback generation.
C7_BothCausesReported ==
    FallbackGenerationFailed =>
        /\ pc = "done"
        /\ result[1] \in ErrorTags
        /\ Cardinality(FailureCauses) = 2
        /\ \A e \in FailureCauses : Contains(result, e)

C7_Witness ==
    /\ pc = "done"
    /\ FallbackGenerationFailed
    /\ Failed("query")
    /\ Contains(result, ErrChromaQuery)
    /\ Contains(result, GenErr(1))

\* The request produced its answer from retrieved chunks.
GroundedPath ==
    /\ calls # <<>>
    /\ LastCall.api = "generate" /\ LastCall.kind = "grounded" /\ LastCall.ok

\* The marker of a grounded answer: the generated text comes first and the
\* "(Used PDF context - n chunks.)" suffix follows.
TaggedGrounded ==
    /\ Len(result) = 4
    /\ result[2] = "(Used PDF context -"
    /\ result[4] = "chunks.)"

\* C8: every result of a hybrid request for a non-blank question carries a
\* marker of the path that produced it: the grounded marker exactly when the
\* answer was generated from retrieved chunks, and otherwise one of the
\* fallback or error markers in front.
C8_ResultCarriesPathIndicator ==
    (pc = "done" /\ use_hybrid /\ Strip(question) # <<>>) =>
        /\ GroundedPath <=> TaggedGrounded
        /\ ~GroundedPath => result[1] \in FallbackTags \cup ErrorTags
        /\ GroundedPath => result[1] \notin FallbackTags \cup ErrorTags

C8_Witness ==
    /\ pc = "done"
    /\ use_hybrid
    /\ GroundedPath
    /\ TaggedGrounded
    /\ result[1] = "generated answer"

\* C9: for chunk_size > chunk_overlap >= 0 chunk_text terminates (the loop
\* runs at most once per character of the text) and every emitted (start, end)
\* satisfies 0 <= start < end <= len(text); an empty text gives no chunk.
C9_ChunkOffsetsWithinText ==
    (cpc # "idle" /\ chunk_size > chunk_overlap /\ chunk_overlap >= 0) =>
        /\ Len(chunks) <= Len(text)
        /\ \A i \in 1..Len(chunks) :
              /\ 0 <= chunks[i][2]
              /\ chunks[i][2] < chunks[i][3]
              /\ chunks[i][3] <= Len(text)
        /\ (cpc = "loop" /\ start < Len(text)) => NextStart(start) > start
        /\ text = <<>> => chunks = <<>>

C9_Witness ==
    /\ cpc = "done"
    /\ chunk_size > chunk_overlap
    /\ chunk_overlap > 0
    /\ Len(chunks) = 3
    /\ chunks[3][3] = Len(text)

\* C10: a non-empty text no longer than chunk_size (with chunk_size >
\* chunk_overlap >= 0) gives exactly one chunk, with offsets (0, len(text)).
\* (The statement of the claim; the loop goes on when
\* chunk_size - chunk_overlap < len(text).)
C10_ShortTextSingleChunk ==
    (cpc = "done" /\ text # <<>> /\ Len(text) <= chunk_size
        /\ chunk_size > chunk_overlap /\ chunk_overlap >= 0) =>
        /\ Len(chunks) = 1
        /\ chunks[1][2] = 0
        /\ chunks[1][3] = Len(text)

\* C11: a call on a non-empty text with chunk_size <= chunk_overlap does not
\* loop forever: it is refused as a configuration error, so its loop never
\* emits more chunks than the text has characters. (The statement of the
\* claim; the code has no such check and start never grows.)
C11_BadParametersDoNotLoop ==
    (cpc # "idle" /\ text # <<>> /\ chunk_size <= chunk_overlap) =>
        /\ Len(chunks) <= Len(text)
        /\ (cpc = "loop" /\ chunks # <<>>) => start > chunks[Len(chunks)][2]

\* ---------------------------------------------------------------- answer_question_local()
\* A chunk text here is a sequence of runs <<character, count>>, neighbouring
\* runs of different characters, so that texts longer than the 500 characters
\* of the identity key can be written down.
MaxLocalHits == 5

RECURSIVE RunLStrip(_)
RunLStrip(t) ==
    IF t = <<>> THEN t ELSE IF IsSpace(Head(t)[1]) THEN RunLStrip(Tail(t)) ELSE t

RECURSIVE RunRStrip(_)
RunRStrip(t) ==
    IF t = <<>> THEN t
    ELSE IF IsSpace(t[Len(t)][1]) THEN RunRStrip(SubSeq(t, 1, Len(t) - 1)) ELSE t

\* c.strip()
RunStrip(t) == RunRStrip(RunLStrip(t))

\* t[:n]
RECURSIVE RunTake(_, _)
RunTake(t, n) ==
    IF t = <<>> \/ n <= 0 THEN <<>>
    ELSE IF Head(t)[2] >= n THEN <<<<Head(t)[1], n>>>>
    ELSE <<Head(t)>> \o RunTake(Tail(t), n - Head(t)[2])

\* The length of the prefix used as identity, line 73
KeyPrefixLen == 500

\* Mutant of DedupeKey: the whole trimmed text is the identity.
DedupeKeyWholeText(c) == RunStrip(c)

\* key = c.strip()[:500], line 73
DedupeKey(c) == RunTake(RunStrip(c), KeyPrefixLen)

\* The chunk texts of the store's hits: a text of 501 characters, one that
\* differs from it by a leading space and after the 500th character of the
\* trimmed text, one that differs within the first 500 characters, and two
\* short ones.
HitTexts ==
    {<<<<"a", 500>>, <<"b", 1>>>>,
     <<<<" ", 1>>, <<"a", 500>>, <<"c", 1>>>>,
     <<<<"a", 499>>, <<"b", 1>>>>,
     <<<<"b", 1>>>>,
     <<<<"c", 1>>>>}

\* The metadata of the hit at rank k.
HitMeta(k) == [source |-> "policy.pdf", chunk_index |-> k]

\* Distance lists of n hits: ascending, and (not what a store returns, but
\* what the function accepts) descending.
DistLists(n) == {[k \in 1..n |-> k], [k \in 1..n |-> n + 1 - k]}

\* What query_collection_by_vector returns: aligned docs, metas, dists.
HitLists ==
    UNION {{<<c, [k \in 1..n |-> HitMeta(k)], d>> :
              c \in [1..n -> HitTexts], d \in DistLists(n)} : n \in 0..MaxLocalHits}

\* Mutant of DedupeFrom: a duplicate is dropped from the chunks only, its
\* metadata and distance stay in the lists.
RECURSIVE DedupeFromKeepsMeta(_, _, _, _, _, _)
DedupeFromKeepsMeta(cs, ms, ds, k, seen, out) ==
    IF k > Min(Len(cs), Min(Len(ms), Len(ds))) THEN out
    ELSE LET key == DedupeKey(cs[k]) IN
         IF key \in seen
         THEN DedupeFromKeepsMeta(cs, ms, ds, k + 1, seen,
                  <<out[1], Append(out[2], ms[k]), Append(out[3], ds[k])>>)
         ELSE DedupeFromKeepsMeta(cs, ms, ds, k + 1, seen \cup {key},
                  <<Append(out[1], cs[k]), Append(out[2], ms[k]), Append(out[3], ds[k])>>)

\* The `for c, m, d in zip(chunks, metas, dists)` of lines 72-79, from the
\* k-th triple on, with the set seen and the three output lists so far.
RECURSIVE DedupeFrom(_, _, _, _, _, _)
DedupeFrom(cs, ms, ds, k, seen, out) ==
    IF k > Min(Len(cs), Min(Len(ms), Len(ds))) THEN out
    ELSE LET key == DedupeKey(cs[k]) IN
         IF key \in seen
         THEN DedupeFrom(cs, ms, ds, k + 1, seen, out)
         ELSE DedupeFrom(cs, ms, ds, k + 1, seen \cup {key},
                  <<Append(out[1], cs[k]), Append(out[2], ms[k]), Append(out[3], ds[k])>>)

\* dedupe_chunks_preserve_order(chunks, metas, dists), lines 68-80
dedupe_chunks_preserve_order(cs, ms, ds) ==
    DedupeFrom(cs, ms, ds, 1, {}, <<<<>>, <<>>, <<>>>>)

\* top_k of answer_question_local, line 121
TopK == 5

\* The context blocks of build_answer_with_gemini, lines 85-89: number,
\* source, distance and trimmed text of each chunk.
ContextParts(cs, ms, ds) ==
    [k \in 1..Min(Len(cs), Min(Len(ms), Len(ds))) |->
        <<k, ms[k].source, ds[k], RunStrip(cs[k])>>]

\* The generation provider's answers to build_answer_with_gemini's call: the
\* call raises, or the response has candidates and the first one's content is
\* this text, or its candidates list is empty.
LocalGenResponses ==
    {[kind |-> "raise", content |-> <<>>],
     [kind |-> "candidates", content |-> <<"o", "k">>],
     [kind |-> "candidates", content |-> <<" ">>],
     [kind |-> "no_candidates", content |-> <<>>]}

\* lines 109-118: the text build_answer_with_gemini returns for a response
NormalizeText(resp) ==
    Strip(IF resp.kind = "candidates" THEN resp.content ELSE <<>>)

\* answer_question_local(), lines 122-126: embed_question and
\* query_collection_by_vector; neither call is inside a try.
LocalRetrieve(out, h) ==
    /\ lpc = "idle"
    /\ IF out # "ok"
       THEN lpc' = "raised" /\ UNCHANGED hits
       ELSE lpc' = "dedupe" /\ hits' = h
    /\ UNCHANGED <<deduped, lprompt, lanswer, avars, cvars, ivars>>

\* The call with the answers of the two providers chosen.
LocalRetrieveAny ==
    /\ lpc = "idle"
    /\ \E out \in {"ok", "embed_raises", "query_raises"}, h \in HitLists :
          LocalRetrieve(out, h)

\* answer_question_local(), line 129
LocalDedupe ==
    /\ lpc = "dedupe"
    /\ deduped' = dedupe_chunks_preserve_order(hits[1], hits[2], hits[3])
    /\ lpc' = "generate"
    /\ UNCHANGED <<hits, lprompt, lanswer, avars, cvars, ivars>>

\* answer_question_local(), lines 138-139, with build_answer_with_gemini
LocalGenerate(resp) ==
    /\ lpc = "generate"
    /\ lprompt' = ContextParts(Slice(deduped[1], 0, TopK), Slice(deduped[2], 0, TopK),
                               Slice(deduped[3], 0, TopK))
    /\ IF resp.kind = "raise"
       THEN lpc' = "raised" /\ UNCHANGED lanswer
       ELSE lpc' = "done" /\ lanswer' = NormalizeText(resp)
    /\ UNCHANGED <<hits, deduped, avars, cvars, ivars>>

\* The caller has the answer (or the exception); the next call starts afresh.
LocalReset ==
    /\ lpc \in {"done", "raised"}
    /\ lpc' = "idle"
    /\ hits' = <<<<>>, <<>>, <<>>>>
    /\ deduped' = <<<<>>, <<>>, <<>>>>
    /\ lprompt' = <<>>
    /\ lanswer' = <<>>
    /\ UNCHANGED <<avars, cvars, ivars>>

LocalInit == AnswerIdle /\ ChunkIdle /\ IngestIdle /\ LocalIdle

LocalNext ==
    \/ LocalRetrieveAny
    \/ LocalDedupe
    \/ \E resp \in LocalGenResponses : LocalGenerate(resp)
    \/ LocalReset

LocalSpec == LocalInit /\ [][LocalNext]_vars

\* ---------------------------------------------------------------- properties of the local pipeline
\* The identity of a chunk: the first 500 characters of its trimmed text.
IdentityKey(c) == RunTake(RunRStrip(RunLStrip(c)), 500)

\* The positions of a list of chunk texts that hold the first occurrence of
\* their identity key.
FirstOccurrences(cs) ==
    {k \in 1..Len(cs) : \A j \in 1..(k - 1) : IdentityKey(cs[j]) # IdentityKey(cs[k])}

\* The elements of s at the positions in P, in the order of s.
RECURSIVE PickUpTo(_, _, _)
PickUpTo(s, P, n) ==
    IF n = 0 THEN <<>>
    ELSE IF n \in P THEN Append(PickUpTo(s, P, n - 1), s[n]) ELSE PickUpTo(s, P, n - 1)

Pick(s, P) == PickUpTo(s, P, Len(s))

KeysOf(cs) == [k \in 1..Len(cs) |-> IdentityKey(cs[k])]

NonDecreasing(ds) == \A k \in 1..(Len(ds) - 1) : ds[k] <= ds[k + 1]

DedupeHasRun == lpc \in {"generate", "done"}

\* C12: the output of dedupe_chunks_preserve_order holds no two entries with
\* the same identity key, and its keys are the keys of the input in the
\* order of their first occurrences.
C12_DedupeUniqueKeysInFirstSeenOrder ==
    DedupeHasRun =>
        /\ \A a, b \in 1..Len(deduped[1]) :
              a # b => IdentityKey(deduped[1][a]) # IdentityKey(deduped[1][b])
        /\ KeysOf(deduped[1]) = KeysOf(Pick(hits[1], FirstOccurrences(hits[1])))

C12_Witness ==
    /\ lpc = "generate"
    /\ Len(hits[1]) = 5
    /\ Len(deduped[1]) = 3
    /\ \E a, b \in 1..5 :
          /\ a < b
          /\ hits[1][a] # hits[1][b]
          /\ IdentityKey(hits[1][a]) = IdentityKey(hits[1][b])

\* C13: the output is the input's (text, metadata, distance) triples at the
\* first occurrence of each identity key, each with its own metadata and
\* distance and in the input's order; so distances that come in
\* non-decreasing order leave in non-decreasing order.
C13_DedupeKeepsFirstTriples ==
    DedupeHasRun =>
        LET P == FirstOccurrences(hits[1]) IN
        /\ deduped[1] = Pick(hits[1], P)
        /\ deduped[2] = Pick(hits[2], P)
        /\ deduped[3] = Pick(hits[3], P)
        /\ NonDecreasing(hits[3]) => NonDecreasing(deduped[3])

\* 5 hits, hits 2 and 4 with the same key and no other key shared: 4 hits
\* leave, hit 4 is the one dropped.
C13_Witness ==
    /\ lpc = "generate"
    /\ Len(hits[1]) = 5
    /\ NonDecreasing(hits[3])
    /\ FirstOccurrences(hits[1]) = {1, 2, 3, 5}
    /\ IdentityKey(hits[1][2]) = IdentityKey(hits[1][4])
    /\ hits[1][2] # hits[1][4]
    /\ deduped[2] = <<HitMeta(1), HitMeta(2), HitMeta(3), HitMeta(5)>>
    /\ deduped[3] = <<1, 2, 3, 5>>

\* C14: the chunks put into a grounding prompt never include two with the same
\* identity key. (The statement of the claim, for answer() of
\* answer_generator_hybrid.py, whose documents are whole strings here: equal
\* strings have equal keys. answer() never calls the deduplicator.)
C14_GroundingPromptHasNoDuplicates ==
    \A n \in 1..Len(calls) :
        (calls[n].api = "generate" /\ calls[n].kind = "grounded") =>
            \A a, b \in 1..Len(calls[n].ctx) :
                a # b => calls[n].ctx[a] # calls[n].ctx[b]

\* C19: the answer synthesizer never returns an empty string as its answer:
\* whenever build_answer_with_gemini returns, the text is not empty. (The
\* statement of the claim; a response without candidates gives "".)
C19_SynthesizerNeverReturnsEmpty ==
    lpc = "done" => lanswer # <<>>

\* C20: one answer() request makes at most one embedding call, at most one
\* store query and at most one generation call, in that order. (The statement
\* of the claim; a generation that raises on the no-hits path is followed by
\* a second generation call in the handler of line 214.)
C20_AtMostOneCallOfEachKind ==
    LET provider == SelectSeq(calls, LAMBDA c : c.api \in {"embed", "query", "generate"})
        rank(c) == CASE c.api = "embed" -> 1 [] c.api = "query" -> 2 [] OTHER -> 3
    IN /\ \A a, b \in 1..Len(provider) : a < b => rank(provider[a]) < rank(provider[b])

\* ---------------------------------------------------------------- ingest.py
MaxRawLen == 3
MaxFiles == 2

COLLECTION_DEFAULT == "hr_policies_text768"

\* s.replace("\r", "\n"), docs.py line 25
ReplaceCR(s) == [k \in 1..Len(s) |-> IF s[k] = "\r" THEN "\n" ELSE s[k]]

\* re.sub(r"\n{3,}", "\n\n", s), docs.py line 26: a "\n" is dropped when the
\* two characters before it are "\n" too, which leaves two of every longer run.
RECURSIVE CollapseFrom(_, _, _)
CollapseFrom(s, k, out) ==
    IF k > Len(s) THEN out
    ELSE IF /\ s[k] = "\n"
            /\ Len(out) >= 2
            /\ out[Len(out)] = "\n"
            /\ out[Len(out) - 1] = "\n"
         THEN CollapseFrom(s, k + 1, out)
         ELSE CollapseFrom(s, k + 1, Append(out, s[k]))

CollapseNewlines(s) == CollapseFrom(s, 1, <<>>)

\* clean_text(s), docs.py lines 24-27
clean_text(s) == Strip(CollapseNewlines(ReplaceCR(s)))

\* The texts load_document extracts: every short text over Chars, and texts
\* with carriage returns and runs of newlines for clean_text to rewrite.
RawTexts ==
    SeqsUpTo(Chars, MaxRawLen) \cup
        { <<"a", "\r", "\n", "\n", "\r", "a">>,
          <<"\n", "a", "\r", "a", " ">>,
          <<"\n", "\r", " ">> }

\* The texts of the files of a folder.
FolderTexts == {<<>>, <<" ">>, <<"a">>, <<"a", "\r", "a">>}

FileName(k) == CASE k = 1 -> "f1" [] k = 2 -> "f2" [] k = 3 -> "f3" [] OTHER -> "fN"

\* What a directory entry can be: a subdirectory, a file load_document cannot
\* read (corrupt PDF or DOCX, no permission), or a file with its text.
EntryContents ==
    {[isfile |-> FALSE, readable |-> FALSE, raw |-> <<>>],
     [isfile |-> TRUE, readable |-> FALSE, raw |-> <<>>]}
    \cup {[isfile |-> TRUE, readable |-> TRUE, raw |-> r] : r \in FolderTexts}

\* os.listdir(folder_path) with what the disk holds for each name.
Listings ==
    UNION {{[k \in 1..n |-> [name |-> FileName(k), isfile |-> f[k].isfile,
                            readable |-> f[k].readable, raw |-> f[k].raw]] :
            f \in [1..n -> EntryContents]} : n \in 1..MaxFiles}

\* The files index_document is called on directly.
DirectEntries ==
    {[name |-> "doc", isfile |-> TRUE, readable |-> FALSE, raw |-> <<>>]}
    \cup {[name |-> "doc", isfile |-> TRUE, readable |-> TRUE, raw |-> r] : r \in RawTexts}

\* os.path.join(folder_path, fname), line 105
PathJoin(dir, fname) == <<dir, fname>>

\* os.path.basename(file_path), line 84
Basename(path) == path[Len(path)]

\* `not raw or not raw.strip()`, line 59
IsEmptyFile(r) == r = <<>> \/ Strip(r) = <<>>

\* The embedding provider's answers to one embed_content call: the call
\* raises, the response holds no vector, or it holds one.
EmbedResponses == {"raise", "no_vector", "vector"}

\* Mutant of extract_vec_from_resp: a vector is found in every response.
ExtractVecAlways(resp) == <<"v">>

\* extract_vec_from_resp(resp), lines 33-54; <<>> is a vec that `not vec`
\* rejects (None or an empty list).
extract_vec_from_resp(resp) == IF resp = "vector" THEN <<"v">> ELSE <<>>

\* Mutant of ChunkMetadata: chunk_index counts the records written so far.
ChunkMetadataByRecord(path, i, c) ==
    [source |-> Basename(path), chunk_index |-> Len(idocs), start |-> c[2], end |-> c[3]]

\* The metadata of chunk number i, lines 83-88
ChunkMetadata(path, i, c) ==
    [source |-> Basename(path), chunk_index |-> i, start |-> c[2], end |-> c[3]]

\* Mutant of StoreAdd: one coll.add call for each record.
StoreAddPerRecord(path, d, m, i, e) ==
    [k \in 1..Len(d) |->
        [file |-> path, collection |-> COLLECTION_DEFAULT, documents |-> <<d[k]>>,
         metadatas |-> <<m[k]>>, ids |-> <<i[k]>>, embeddings |-> <<e[k]>>]]

\* The coll.add call of line 98, as the store sees it.
StoreAdd(path, d, m, i, e) ==
    <<[file |-> path, collection |-> COLLECTION_DEFAULT, documents |-> d,
       metadatas |-> m, ids |-> i, embeddings |-> e]>>

\* The store's answers at lines 97-98: get_or_create_collection raises,
\* coll.add raises, or both return.
StoreOutcomes == {"get_raises", "add_raises", "ok"}

\* index_document(file_path, collection_name, chunk_size, chunk_overlap) is
\* entered, line 57: its locals are fresh.
EnterIndexDocument(path, e, size, overlap) ==
    /\ ipc' = "load"
    /\ file_path' = path
    /\ entry' = e
    /\ visited' = Append(visited, path)
    /\ chunk_size' = size
    /\ chunk_overlap' = overlap
    /\ cpc' = "idle"
    /\ text' = <<>>
    /\ start' = 0
    /\ chunks' = <<>>
    /\ raw' = <<>>
    /\ ci' = 0
    /\ idocs' = <<>>
    /\ metadatas' = <<>>
    /\ ids' = <<>>
    /\ embeddings' = <<>>
    /\ embed_log' = <<>>
    /\ iret' = None
    /\ UNCHANGED <<add_calls, next_id, iexc>>

\* index_document called on one file, as __main__ does for a file argument.
IndexDocumentCall(e, size, overlap) ==
    /\ ipc = "idle"
    /\ in_folder' = FALSE
    /\ folder' = <<>>
    /\ EnterIndexDocument(<<e.name>>, e, size, overlap)
    /\ UNCHANGED <<avars, lvars>>

\* index_folder(folder_path, collection_name), lines 103-104
IndexFolder(listing) ==
    /\ ipc = "idle"
    /\ ipc' = "folder"
    /\ in_folder' = TRUE
    /\ folder' = listing
    /\ UNCHANGED <<file_path, entry, raw, ci, idocs, metadatas, ids, embeddings,
                   embed_log, add_calls, next_id, visited, iret, iexc,
                   avars, cvars, lvars>>

\* One iteration of the `for fname` loop, lines 104-107
FolderStep ==
    /\ ipc = "folder"
    /\ folder # <<>>
    /\ folder' = Tail(folder)
    /\ IF Head(folder).isfile
       THEN EnterIndexDocument(PathJoin("policies", Head(folder).name), Head(folder),
                               DefaultChunkSize, DefaultChunkOverlap)
       ELSE UNCHANGED <<ipc, file_path, entry, raw, ci, idocs, metadatas, ids, embeddings,
                        embed_log, add_calls, next_id, visited, iret, iexc, cvars>>
    /\ UNCHANGED <<in_folder, avars, lvars>>

\* The listing is exhausted: index_folder returns.
FolderDone ==
    /\ ipc = "folder"
    /\ folder = <<>>
    /\ ipc' = "done"
    /\ UNCHANGED <<in_folder, folder, file_path, entry, raw, ci, idocs, metadatas, ids,
                   embeddings, embed_log, add_calls, next_id, visited, iret, iexc,
                   avars, cvars, lvars>>

\* Lines 58-64 up to the entry of chunk_text: load_document raises, or the
\* file is empty and the call returns, or the cleaned text goes to chunk_text.
LoadDocument ==
    /\ ipc = "load"
    /\ IF ~entry.readable
       THEN /\ ipc' = "raised"
            /\ iexc' = "load_document"
            /\ UNCHANGED <<raw, iret, cvars>>
       ELSE IF IsEmptyFile(entry.raw)
       THEN /\ ipc' = "returned"
            /\ raw' = entry.raw
            /\ iret' = None
            /\ UNCHANGED <<iexc, cvars>>
       ELSE /\ ipc' = "chunking"
            /\ raw' = entry.raw
            /\ text' = clean_text(entry.raw)
            /\ cpc' = "loop"
            /\ start' = 0
            /\ chunks' = <<>>
            /\ UNCHANGED <<iret, iexc, chunk_size, chunk_overlap>>
    /\ UNCHANGED <<in_folder, folder, file_path, entry, ci, idocs, metadatas, ids,
                   embeddings, embed_log, add_calls, next_id, visited, avars, lvars>>

\* chunk_text has returned; line 66
StartEmbedding ==
    /\ ipc = "chunking"
    /\ cpc = "done"
    /\ ipc' = "embed"
    /\ ci' = 0
    /\ idocs' = <<>>
    /\ metadatas' = <<>>
    /\ ids' = <<>>
    /\ embeddings' = <<>>
    /\ UNCHANGED <<in_folder, folder, file_path, entry, raw, embed_log, add_calls,
                   next_id, visited, iret, iexc, avars, cvars, lvars>>

\* One iteration of the `for i, (chunk, start, end)` loop, lines 68-90
EmbedChunk(resp) ==
    /\ ipc = "embed"
    /\ ci < Len(chunks)
    /\ ci' = ci + 1
    /\ embed_log' = Append(embed_log, resp)
    /\ IF resp = "raise" \/ extract_vec_from_resp(resp) = <<>>
       THEN UNCHANGED <<idocs, metadatas, ids, embeddings, next_id>>
       ELSE /\ next_id' = next_id + 1
            /\ idocs' = Append(idocs, chunks[ci + 1][1])
            /\ metadatas' = Append(metadatas, ChunkMetadata(file_path, ci, chunks[ci + 1]))
            /\ ids' = Append(ids, next_id + 1)
            /\ embeddings' = Append(embeddings, extract_vec_from_resp(resp))
    /\ UNCHANGED <<ipc, in_folder, folder, file_path, entry, raw, add_calls, visited,
                   iret, iexc, avars, cvars, lvars>>

\* The loop is over, lines 92-100
FinishDocument(out) ==
    /\ ipc = "embed"
    /\ ci = Len(chunks)
    /\ IF idocs = <<>>
       THEN /\ ipc' = "returned"
            /\ iret' = None
            /\ UNCHANGED <<add_calls, iexc>>
       ELSE IF out = "get_raises"
       THEN /\ ipc' = "raised"
            /\ iexc' = "get_or_create_collection"
            /\ UNCHANGED <<add_calls, iret>>
       ELSE /\ add_calls' = add_calls \o StoreAdd(file_path, idocs, metadatas, ids, embeddings)
            /\ IF out = "add_raises"
               THEN /\ ipc' = "raised"
                    /\ iexc' = "add"
                    /\ UNCHANGED iret
               ELSE /\ ipc' = "returned"
                    /\ iret' = None
                    /\ UNCHANGED iexc
    /\ UNCHANGED <<in_folder, folder, file_path, entry, raw, ci, idocs, metadatas, ids,
                   embeddings, embed_log, next_id, visited, avars, cvars, lvars>>

\* index_document has returned to the loop of index_folder, line 104
NextFile ==
    /\ ipc = "returned"
    /\ in_folder
    /\ ipc' = "folder"
    /\ UNCHANGED <<in_folder, folder, file_path, entry, raw, ci, idocs, metadatas, ids,
                   embeddings, embed_log, add_calls, next_id, visited, iret, iexc,
                   avars, cvars, lvars>>

\* The run is over (returned, raised, or cut off in a chunk_text that never
\* returns); the next run starts afresh.
IngestReset ==
    /\ \/ ipc \in {"done", "raised"}
       \/ ipc = "returned" /\ ~in_folder
       \/ ipc = "chunking" /\ cpc = "loop" /\ Len(chunks) >= MaxChunks
    /\ ipc' = "idle"
    /\ in_folder' = FALSE
    /\ folder' = <<>>
    /\ file_path' = <<>>
    /\ entry' = NoEntry
    /\ raw' = <<>>
    /\ ci' = 0
    /\ idocs' = <<>>
    /\ metadatas' = <<>>
    /\ ids' = <<>>
    /\ embeddings' = <<>>
    /\ embed_log' = <<>>
    /\ add_calls' = <<>>
    /\ next_id' = 0
    /\ visited' = <<>>
    /\ iret' = None
    /\ iexc' = ""
    /\ cpc' = "idle"
    /\ text' = <<>>
    /\ chunk_size' = 1
    /\ chunk_overlap' = 0
    /\ start' = 0
    /\ chunks' = <<>>
    /\ UNCHANGED <<avars, lvars>>

IngestInit == AnswerIdle /\ ChunkIdle /\ IngestIdle /\ LocalIdle

IngestNext ==
    \/ \E e \in DirectEntries, size \in 1..MaxSize, overlap \in 0..MaxOverlap :
          IndexDocumentCall(e, size, overlap)
    \/ \E listing \in Listings : IndexFolder(listing)
    \/ FolderStep
    \/ FolderDone
    \/ LoadDocument
    \/ ChunkLoop
    \/ ChunkReturn
    \/ StartEmbedding
    \/ \E resp \in EmbedResponses : EmbedChunk(resp)
    \/ \E out \in StoreOutcomes : FinishDocument(out)
    \/ NextFile
    \/ IngestReset

IngestSpec == IngestInit /\ [][IngestNext]_vars

\* ---------------------------------------------------------------- ingest properties
\* The coll.add calls the current index_document call has made.
CallAdds == SelectSeq(add_calls, LAMBDA a : a.file = file_path)

RECURSIVE SumDocuments(_)
SumDocuments(adds) ==
    IF adds = <<>> THEN 0 ELSE Len(Head(adds).documents) + SumDocuments(Tail(adds))

\* Records the current index_document call has written to the store.
RecordsWritten == SumDocuments(CallAdds)

\* The 1-based positions of the chunks whose embed_content call returned a
\* vector, in chunk order.
EmbeddedPositions ==
    SelectSeq([k \in 1..Len(embed_log) |-> k], LAMBDA k : embed_log[k] = "vector")

\* The record lists the embedded chunks must give.
ExpectedDocs == [j \in 1..Len(EmbeddedPositions) |-> chunks[EmbeddedPositions[j]][1]]
ExpectedMetadatas ==
    [j \in 1..Len(EmbeddedPositions) |->
        [source |-> Basename(file_path),
         chunk_index |-> EmbeddedPositions[j] - 1,
         start |-> chunks[EmbeddedPositions[j]][2],
         end |-> chunks[EmbeddedPositions[j]][3]]]

\* C15 as stated: index_document returns the count of records it wrote to
\* the store (0 when there is no text or no chunk was embedded).
C15_ReturnsCountWritten ==
    ipc = "returned" => iret = <<RecordsWritten>>

\* C15, amended: index_document returns no value (None) on every path; the
\* number of records it wrote to the store, which it only prints, is the
\* number of chunks whose embedding succeeded, and is 0 when the file yields
\* no text or no chunk could be embedded.
C15_ReturnsNoneWritesEmbeddedCount ==
    ipc = "returned" =>
        /\ iret = None
        /\ RecordsWritten = Len(EmbeddedPositions)
        /\ IsEmptyFile(entry.raw) => RecordsWritten = 0

\* A call that returned after writing some chunks and skipping others.
C15_Witness ==
    /\ ipc = "returned"
    /\ RecordsWritten >= 1
    /\ RecordsWritten < Len(chunks)

\* C16: an embedding failure on a chunk (the call raises, or no vector is in
\* the response) skips only that chunk: every chunk is still sent to the
\* provider, and the records are exactly the chunks whose embedding
\* succeeded, in chunk order, each with metadata {source, chunk_index, start,
\* end}, chunk_index being the 0-based position among all chunks of the
\* document and start/end the chunker's offsets.
C16_FailedChunkSkippedOthersRecorded ==
    /\ ipc \in {"embed", "returned", "raised"} =>
          /\ Len(embed_log) = ci
          /\ idocs = ExpectedDocs
          /\ metadatas = ExpectedMetadatas
          /\ Len(ids) = Len(idocs) /\ Len(embeddings) = Len(idocs)
    /\ (ipc \in {"returned", "raised"} /\ chunks # <<>>) => Len(embed_log) = Len(chunks)
    /\ \A n \in 1..Len(CallAdds) :
          /\ CallAdds[n].documents = ExpectedDocs
          /\ CallAdds[n].metadatas = ExpectedMetadatas

\* A document written after a failed chunk was followed by a successful one,
\* with both kinds of failure seen.
C16_Witness ==
    /\ ipc = "returned"
    /\ CallAdds # <<>>
    /\ \E j, k, l \in 1..Len(embed_log) :
          /\ j < l /\ k < l
          /\ embed_log[j] = "raise"
          /\ embed_log[k] = "no_vector"
          /\ embed_log[l] = "vector"

\* index_folder's run is over.
FolderRunEnded == in_folder /\ ipc \in {"done", "raised"}

\* C17: in index_folder a file whose text extraction fails is skipped and
\* does not stop the batch: when the run ends (without a store error) no file
\* of the folder is left unprocessed. (The statement of the claim;
\* load_document's exception leaves index_document and index_folder.)
C17_ExtractionFailureDoesNotStopBatch ==
    (FolderRunEnded /\ iexc \notin {"get_or_create_collection", "add"}) =>
        /\ iexc = ""
        /\ \A k \in 1..Len(folder) : ~folder[k].isfile

\* C18: index_document makes exactly one store write, holding all embedded
\* chunks, when at least one chunk was embedded, and makes no store write and
\* raises no error when the text is empty or whitespace-only or no chunk was
\* embedded.
C18_OneStoreWriteOrNone ==
    /\ Len(CallAdds) <= 1
    /\ ipc = "returned" =>
          IF Len(EmbeddedPositions) > 0
          THEN /\ Len(CallAdds) = 1
               /\ CallAdds[1].documents = ExpectedDocs
               /\ Len(CallAdds[1].ids) = Len(EmbeddedPositions)
               /\ Len(CallAdds[1].embeddings) = Len(EmbeddedPositions)
          ELSE CallAdds = <<>>
    /\ (ipc \in {"load", "chunking", "embed", "returned", "raised"}
            /\ entry.readable
            /\ (IsEmptyFile(entry.raw) \/ Len(EmbeddedPositions) = 0)) =>
          /\ ipc # "raised"
          /\ CallAdds = <<>>

\* One write holding several chunks, made by a call that skipped a chunk.
C18_Witness ==
    /\ ipc = "returned"
    /\ Len(CallAdds) = 1
    /\ Len(CallAdds[1].documents) >= 2
    /\ Len(CallAdds[1].documents) < Len(chunks)

\* ---------------------------------------------------------------- answer(): store, totality, labels
\* C21: the query path never changes the store: no step of an answer()
\* request changes the set of collections. (The statement of the claim;
\* _create_clients falls back to get_or_create_collection, which creates the
\* collection the store does not hold.)
C21_ReadPathLeavesStoreUnchanged ==
    [][collExists' = collExists]_vars

\* The positions answer() can be at; none stands for an escaped exception.
AnswerStages ==
    {"idle", "answer", "clients", "clients_fallback", "gemini_only", "embed", "query",
     "grounded", "no_hits", "chroma_fallback", "done"}

\* C24: answer() is total: for every question, either mode and every
\* combination of failures of client creation, the embedding call, the store
\* query and the generation call, no exception leaves answer(), a request
\* under way always has a next step, and it ends by returning a result.
C24_AnswerIsTotal ==
    /\ pc \in AnswerStages
    /\ pc \notin {"idle", "done"} => ENABLED AnswerNext
    /\ pc = "done" => result # <<>>

\* A hybrid request that returned although client creation had failed on the
\* missing key and left gclient unbound.
C24_Witness ==
    /\ pc = "done"
    /\ use_hybrid
    /\ Failed("create_clients")
    /\ ~gclientBound
    /\ exc = <<ErrUnbound>>
    /\ result # <<>>

\* The labels of a result that reports a store failure.
StoreFailureTags == {"(Chroma failed:", "Both Chroma and Gemini failed:"}

\* C25: a result labelled "Chroma failed" or "Both Chroma and Gemini failed"
\* is returned only when the store query failed in that request. (The
\* statement of the claim; the generation call of the no-hits path sits in
\* the try of the store query.)
C25_StoreFailureOnlyWhenQueryFailed ==
    (pc = "done" /\ result[1] \in StoreFailureTags) => Failed("query")

\* The labels of the two results of the client-init handler.
ClientInitTags == {"(Gemini fallback - clients init failed)", "Error creating clients:"}

\* C26: when client creation fails, answer() ends the request at that stage:
\* it goes to the client-init fallback generation only, and returns its
\* answer or a client-creation error. (The statement of the claim; with the
\* API key missing the handler ends without a return.)
C26_ClientFailureEndsRequest ==
    Failed("create_clients") =>
        /\ pc \in {"clients_fallback", "done"}
        /\ pc = "done" => result[1] \in ClientInitTags

\* ---------------------------------------------------------------- chunk_text(): windows
\* The reference sliding window: window i starts at i * (chunk_size -
\* chunk_overlap), ends chunk_size further or at the end of the text, and
\* there is one window for every such start below len(text).
RefStep == chunk_size - chunk_overlap
RefStart(i) == i * RefStep
RefEnd(i) == Min(RefStart(i) + chunk_size, Len(text))
RefCount == IF text = <<>> THEN 0 ELSE ((Len(text) - 1) \div RefStep) + 1
RefChunk(i) == <<Strip(SubSeq(text, RefStart(i) + 1, RefEnd(i))), RefStart(i), RefEnd(i)>>
RefChunks(n) == [j \in 1..n |-> RefChunk(j - 1)]

\* C22: for chunk_size > chunk_overlap >= 0 chunk_text equals the reference
\* sliding window: chunk i starts at i * (chunk_size - chunk_overlap), ends at
\* min(start + chunk_size, len(text)), its text is text[start:end] trimmed
\* (the offsets stay those of the untrimmed window), and chunks are emitted
\* for exactly the i whose start is below len(text).
C22_ChunksEqualReferenceWindow ==
    (chunk_size > chunk_overlap /\ chunk_overlap >= 0) =>
        /\ cpc = "loop" =>
              /\ Len(chunks) <= RefCount
              /\ chunks = RefChunks(Len(chunks))
              /\ start = RefStart(Len(chunks))
        /\ cpc = "done" => chunks = RefChunks(RefCount)

\* 2500 characters with 1200/200: starts [0, 1000, 2000], last chunk
\* [2000, 2500), and the first chunk's text is shorter than its window.
C22_Witness ==
    /\ cpc = "done"
    /\ Len(text) = 2500
    /\ chunk_size = 1200 /\ chunk_overlap = 200
    /\ [k \in 1..Len(chunks) |-> chunks[k][2]] = <<0, 1000, 2000>>
    /\ chunks[3][3] = 2500
    /\ chunks[1][3] = 1200
    /\ Len(chunks[1][1]) = 1199

\* C23: chunks come in non-decreasing start order and every two consecutive
\* chunks overlap by exactly chunk_overlap characters (end_i - start_{i+1} =
\* chunk_overlap); only the final chunk may be shorter than chunk_size. (The
\* statement of the claim, taken for chunk_size > chunk_overlap >= 0 only;
\* the windows that begin after a window has reached the end of the text are
\* all clipped.)
C23_ConsecutiveChunksOverlapExactly ==
    (cpc = "done" /\ chunk_size > chunk_overlap /\ chunk_overlap >= 0) =>
        \A k \in 1..(Len(chunks) - 1) :
            /\ chunks[k][2] <= chunks[k + 1][2]
            /\ chunks[k][3] - chunks[k + 1][2] = chunk_overlap
            /\ chunks[k][3] - chunks[k][2] = chunk_size

\* C27: for chunk_size > chunk_overlap >= 0 the windows cover the text
\* without gaps: the first chunk starts at 0, the last chunk ends at
\* len(text), and every position p with 0 <= p < len(text) lies in the
\* [start, end) window of some chunk.
C27_WindowsCoverText ==
    (cpc = "done" /\ chunk_size > chunk_overlap /\ chunk_overlap >= 0) =>
        /\ text # <<>> => chunks # <<>>
        /\ chunks # <<>> =>
              /\ chunks[1][2] = 0
              /\ chunks[Len(chunks)][3] = Len(text)
        /\ \A p \in 0..(Len(text) - 1) :
              \E k \in 1..Len(chunks) : chunks[k][2] <= p /\ p < chunks[k][3]

\* Several overlapping windows over a text that is not a multiple of the step.
C27_Witness ==
    /\ cpc = "done"
    /\ chunk_size > chunk_overlap
    /\ chunk_overlap > 0
    /\ Len(chunks) >= 2
    /\ Len(text) >= 4
    /\ chunks[Len(chunks)][3] - chunks[Len(chunks)][2] < chunk_size

\* C28: every chunk chunk_text emits, and so every chunk index_document
\* sends to the embedding provider and writes to the store, has non-empty
\* text. (The statement of the claim; a window of whitespace is emitted with
\* the text "".)
C28_NoEmptyChunkText ==
    /\ \A k \in 1..Len(chunks) : chunks[k][1] # <<>>
    /\ \A k \in 1..Len(idocs) : idocs[k] # <<>>
    /\ \A n \in 1..Len(add_calls) :
          \A k \in 1..Len(add_calls[n].documents) : add_calls[n].documents[k] # <<>>

====
